---- MODULE Spec2Model ----
(***************************************************************************)
(* Spaced-repetition scheduling of study_buddy: the scheduler              *)
(* (app/core/spaced_repetition.py), the review table and its queries       *)
(* (app/models/repository.py), the schedule view                           *)
(* (app/core/learning_manager.py) and the two HTTP entry points that       *)
(* record a review (app/api/flashcard.py, app/api/learning_progress.py).   *)
(*                                                                         *)
(* Time is counted in ticks; TicksPerDay ticks make one calendar day, so   *)
(* a timestamp has a date portion (t \div TicksPerDay) and a time of day   *)
(* (t % TicksPerDay).                                                      *)
(***************************************************************************)
EXTENDS Integers, Sequences, FiniteSets, TLC

\* ------------------------------------------------------------------ bounds
TicksPerDay == 2
MaxClock == 3
MaxReviews == 2
MaxPrevInterval == 140
MaxRepetitions == 5

\* ------------------------------------------------------- program constants
MaxIntervalDays == 180
DefaultDaysToNextReview == 3

Users == {"u1", "u2"}
FlashcardIds == {"f1", "f2"}
CardIds == {"c1", "c2"}
ValidConfidence == 1..5
\* what the handlers are called with: the (user, flashcard set) pairs, the
\* confidence values (0 is out of range) and the days of a schedule query
ReviewPairs == {<<"u1", "f1">>, <<"u1", "f2">>, <<"u2", "f1">>}
ConfidenceInputs == {0, 1, 5}
HorizonInputs == {0, 1, 30}
\* the database call of a handler that fails with a storage error, if any:
\* POST /flashcard/review issues a commit and a refresh, the scheduler's
\* update_flashcard_schedule begins with a query
InsertFaults == {"none", "commit", "refresh"}
ScheduleFaults == {"none", "query"}

VARIABLES
    clock,              \* datetime.datetime.utcnow(), in ticks
    flashcards,         \* ids of the rows of table flashcards
    flashcard_reviews,  \* rows of table flashcard_reviews, in insertion order
    progress_tracking,  \* calls of update_topic_progress made so far
    calc,               \* the call of calculate_next_review made by the handler
    response            \* the request being answered and what the handler returned

vars == <<clock, flashcards, flashcard_reviews, progress_tracking, calc, response>>

NoCall == [op |-> "none"]

Min(a, b) == IF a <= b THEN a ELSE b
Max(a, b) == IF a >= b THEN a ELSE b

RECURSIVE Pow2(_)
Pow2(n) == IF n = 0 THEN 1 ELSE 2 * Pow2(n - 1)

\* floor(log2(n)) for n >= 1
RECURSIVE Log2(_)
Log2(n) == IF n <= 1 THEN 0 ELSE 1 + Log2(n \div 2)

\* timedelta(days=d) in ticks, and the .days of a timedelta
Days(d) == d * TicksPerDay
DaysOf(delta) == delta \div TicksPerDay
\* replace(hour=0, minute=0, second=0, microsecond=0)
Midnight(t) == (t \div TicksPerDay) * TicksPerDay

\* ---------------------------------------------------------------------
\* ease_factor = 1.3 + (confidence - 1) * 0.3, evaluated in IEEE-754
\* doubles.  The double is written as the exact fraction
\*     (tenths * 2^exp + err) / (10 * 2^exp)
\* where tenths / 10 is the decimal value (1.3, 1.6, 1.9, 2.2, 2.5), exp is
\* the exponent that makes the double a 53-bit integer over 2^exp, and err
\* is ten times the distance of the double from the decimal value, in units
\* of 2^-exp: 1.3 -> +2, 1.6 -> +4, 1.9 -> -4, 2.2 -> +4, 2.5 -> 0.
EaseErr(confidence) ==
    CASE confidence = 1 -> 2
      [] confidence = 2 -> 4
      [] confidence = 3 -> -4
      [] confidence = 4 -> 4
      [] OTHER -> 0

EaseFactor_fromzero(confidence) ==
    LET tenths == 13 + confidence * 3
    IN  [tenths |-> tenths,
         exp |-> 52 - Log2(tenths \div 10),
         err |-> EaseErr(confidence)]

EaseFactor(confidence) ==
    LET tenths == 13 + (confidence - 1) * 3
    IN  [tenths |-> tenths,
         exp |-> 52 - Log2(tenths \div 10),
         err |-> EaseErr(confidence)]

\* math.ceil(previous_interval * ease_factor): the product is rounded to the
\* nearest double (ties to even) and then taken to the next integer.  When
\* the decimal product has a fractional part, the rounding error (below
\* 2^-40) cannot reach an integer.  When the decimal product is an integer
\* N, the exact product is N + p*err/(10*2^exp); it rounds back to N unless
\* it lies more than half a unit in the last place of N (2^(k-53), with
\* 2^k <= N) above N, and then the ceiling is N + 1.
CeilMul(p, ease) ==
    LET t == p * ease.tenths
        N == t \div 10
        k == Log2(N)
    IN  IF p = 0 THEN 0
        ELSE IF t % 10 # 0 THEN N + 1
        ELSE IF ease.err > 0
                /\ p * ease.err * Pow2(53 - ease.exp) > 10 * Pow2(k)
             THEN N + 1
        ELSE N

calculate_next_review_nocap(confidence, previous_interval, repetitions, now) ==
    LET ease_factor == EaseFactor(confidence)
        reps == IF confidence <= 2 THEN 0 ELSE repetitions + 1
        next_interval ==
            IF reps = 0 THEN 1
            ELSE IF reps = 1 THEN 3
            ELSE IF reps = 2 THEN 7
            ELSE CeilMul(previous_interval, ease_factor)
    IN  [next_interval |-> next_interval,
         next_review_date |-> now + Days(next_interval),
         ease_factor |-> ease_factor,
         repetitions |-> reps]

calculate_next_review_keepreps(confidence, previous_interval, repetitions, now) ==
    LET ease_factor == EaseFactor(confidence)
        reps == repetitions + 1
        next_interval ==
            IF reps = 0 THEN 1
            ELSE IF reps = 1 THEN 3
            ELSE IF reps = 2 THEN 7
            ELSE Min(CeilMul(previous_interval, ease_factor), MaxIntervalDays)
    IN  [next_interval |-> next_interval,
         next_review_date |-> now + Days(next_interval),
         ease_factor |-> ease_factor,
         repetitions |-> reps]

calculate_next_review_nodays(confidence, previous_interval, repetitions, now) ==
    LET ease_factor == EaseFactor(confidence)
        reps == IF confidence <= 2 THEN 0 ELSE repetitions + 1
        next_interval ==
            IF reps = 0 THEN 1
            ELSE IF reps = 1 THEN 3
            ELSE IF reps = 2 THEN 7
            ELSE Min(CeilMul(previous_interval, ease_factor), MaxIntervalDays)
    IN  [next_interval |-> next_interval,
         next_review_date |-> now + next_interval,
         ease_factor |-> ease_factor,
         repetitions |-> reps]

\* SpacedRepetitionScheduler.calculate_next_review
calculate_next_review(confidence, previous_interval, repetitions, now) ==
    LET ease_factor == EaseFactor(confidence)
        reps == IF confidence <= 2 THEN 0 ELSE repetitions + 1
        next_interval ==
            IF reps = 0 THEN 1
            ELSE IF reps = 1 THEN 3
            ELSE IF reps = 2 THEN 7
            ELSE Min(CeilMul(previous_interval, ease_factor), MaxIntervalDays)
    IN  [next_interval |-> next_interval,
         next_review_date |-> now + Days(next_interval),
         ease_factor |-> ease_factor,
         repetitions |-> reps]

Called(confidence, previous_interval, repetitions, now) ==
    [op |-> "calculate_next_review",
     confidence |-> confidence,
     previous_interval |-> previous_interval,
     repetitions |-> repetitions,
     now |-> now,
     result |-> calculate_next_review(confidence, previous_interval,
                                      repetitions, now)]

\* ---------------------------------------------------------------------
\* The scheduler alone: one call of calculate_next_review on arguments
\* drawn from the bounded input space.
Pending(confidence, previous_interval, repetitions) ==
    [op |-> "pending",
     confidence |-> confidence,
     previous_interval |-> previous_interval,
     repetitions |-> repetitions]

InitCalc ==
    /\ clock \in 0..MaxClock
    /\ flashcards = {}
    /\ flashcard_reviews = <<>>
    /\ progress_tracking = <<>>
    /\ response = NoCall
    /\ \E c \in ValidConfidence, p \in 0..MaxPrevInterval, r \in 0..MaxRepetitions :
          calc = Pending(c, p, r)

Calculate ==
    /\ calc.op = "pending"
    /\ calc' = Called(calc.confidence, calc.previous_interval,
                      calc.repetitions, clock)
    /\ UNCHANGED <<clock, flashcards, flashcard_reviews, progress_tracking, response>>

NextCalc == Calculate

SpecCalc == InitCalc /\ [][NextCalc]_vars

\* ---------------------------------------------------------------------
\* Tables.  A row of flashcard_reviews is
\*   [id, flashcard_id, user_id, confidence, next_review_at, reviewed_at];
\* id stands for the uuid4 primary key and is the row's insertion number,
\* reviewed_at is the column default (the time of the insert).  The
\* foreign key to flashcards is declared but SQLite does not enforce it,
\* so a review row may name a flashcard that has no row.
Rows == {flashcard_reviews[i] : i \in 1..Len(flashcard_reviews)}

\* flashcard_content["metadata"]["topic"] of a flashcard set
TopicOf(f) == IF f = "f1" THEN "algebra" ELSE "biology"

\* All orders in which a query with ORDER BY can return the rows S: every
\* permutation that is sorted by key (a function on S); rows with equal keys
\* come in any order.
Orderings(S) ==
    {s \in [1..Cardinality(S) -> S] :
        \A i, j \in 1..Cardinality(S) : i # j => s[i] # s[j]}

OrderBy(S, key) ==
    {s \in Orderings(S) :
        \A i, j \in 1..Cardinality(S) : i < j => key[s[i]] <= key[s[j]]}

days_to_next_review_zero(confidence) ==
    CASE confidence = 1 -> 0
      [] confidence = 2 -> 3
      [] confidence = 3 -> 7
      [] confidence = 4 -> 14
      [] confidence = 5 -> 30
      [] OTHER -> DefaultDaysToNextReview

days_to_next_review_year(confidence) ==
    CASE confidence = 1 -> 1
      [] confidence = 2 -> 3
      [] confidence = 3 -> 7
      [] confidence = 4 -> 14
      [] confidence = 5 -> 365
      [] OTHER -> DefaultDaysToNextReview

\* the dict lookup {1: 1, 2: 3, 3: 7, 4: 14, 5: 30}.get(confidence, 3)
days_to_next_review(confidence) ==
    CASE confidence = 1 -> 1
      [] confidence = 2 -> 3
      [] confidence = 3 -> 7
      [] confidence = 4 -> 14
      [] confidence = 5 -> 30
      [] OTHER -> DefaultDaysToNextReview

record_flashcard_review_upsert(flashcard_id, user_id, confidence) ==
    LET now == clock
        next_review == now + Days(days_to_next_review(confidence))
        same == {i \in DOMAIN flashcard_reviews :
                    /\ flashcard_reviews[i].flashcard_id = flashcard_id
                    /\ flashcard_reviews[i].user_id = user_id}
    IN  IF same # {}
        THEN [i \in DOMAIN flashcard_reviews |->
                 IF i \in same
                 THEN [flashcard_reviews[i] EXCEPT !.confidence = confidence,
                                                   !.next_review_at = next_review,
                                                   !.reviewed_at = now]
                 ELSE flashcard_reviews[i]]
        ELSE Append(flashcard_reviews,
                    [id |-> Len(flashcard_reviews) + 1,
                     flashcard_id |-> flashcard_id,
                     user_id |-> user_id,
                     confidence |-> confidence,
                     next_review_at |-> next_review,
                     reviewed_at |-> now])

record_flashcard_review_unscheduled(flashcard_id, user_id, confidence) ==
    LET now == clock
    IN  Append(flashcard_reviews,
               [id |-> Len(flashcard_reviews) + 1,
                flashcard_id |-> flashcard_id,
                user_id |-> user_id,
                confidence |-> confidence,
                next_review_at |-> now,
                reviewed_at |-> now])

\* repository.record_flashcard_review: the table after the insert; the new
\* row is the last one.
record_flashcard_review(flashcard_id, user_id, confidence) ==
    LET now == clock
        next_review == now + Days(days_to_next_review(confidence))
    IN  Append(flashcard_reviews,
               [id |-> Len(flashcard_reviews) + 1,
                flashcard_id |-> flashcard_id,
                user_id |-> user_id,
                confidence |-> confidence,
                next_review_at |-> next_review,
                reviewed_at |-> now])

\* The parameters repository.record_flashcard_review declares, and the
\* keyword arguments update_flashcard_schedule passes to it.  A keyword that
\* is not a parameter makes the call raise TypeError before the body runs.
record_flashcard_review_parameters ==
    {"db", "flashcard_id", "user_id", "confidence"}

update_flashcard_schedule_keywords ==
    {"flashcard_id", "user_id", "confidence", "next_review_at"}

CallBinds(keywords, parameters) == keywords \subseteq parameters

\* the rows update_flashcard_schedule reads: all reviews of (user, flashcard)
previous_reviews(user_id, flashcard_id) ==
    {r \in Rows : r.user_id = user_id /\ r.flashcard_id = flashcard_id}

\* reviewed_at of previous_reviews[0] under ORDER BY reviewed_at DESC
last_reviewed_at(prev) ==
    CHOOSE t \in {r.reviewed_at : r \in prev} :
        \A r \in prev : r.reviewed_at <= t

previous_interval_of_stored(prev) ==
    IF prev = {} THEN 0
    ELSE LET last == CHOOSE r \in prev : r.reviewed_at = last_reviewed_at(prev)
         IN  DaysOf(last.next_review_at - last.reviewed_at)

previous_interval_of_nomax(prev) ==
    IF prev = {} THEN 0
    ELSE DaysOf(clock - last_reviewed_at(prev))

\* previous_interval: max((now - last_review.reviewed_at).days, 1), or 0
\* when there is no previous review
previous_interval_of(prev) ==
    IF prev = {} THEN 0
    ELSE Max(DaysOf(clock - last_reviewed_at(prev)), 1)

\* sum(1 for r in previous_reviews if r.confidence >= 3)
repetitions_of(prev) ==
    IF prev = {} THEN 0
    ELSE Cardinality({r \in prev : r.confidence >= 3})

update_flashcard_schedule_per_card(user_id, flashcard_id, card_id, confidence) ==
    LET prev == IF card_id = "c1"
                THEN previous_reviews(user_id, flashcard_id)
                ELSE {}
        call == Called(confidence, previous_interval_of(prev),
                       repetitions_of(prev), clock)
    IN  [raised |-> "TypeError",
         calc |-> call,
         flashcard_reviews |-> flashcard_reviews,
         progress_tracking |-> progress_tracking,
         result |-> <<>>]

\* SpacedRepetitionScheduler.update_flashcard_schedule: what it raises, the
\* scheduler call it made, and the tables it leaves behind.
update_flashcard_schedule(user_id, flashcard_id, card_id, confidence) ==
    LET prev == previous_reviews(user_id, flashcard_id)
        call == Called(confidence, previous_interval_of(prev),
                       repetitions_of(prev), clock)
        stored == record_flashcard_review(flashcard_id, user_id, confidence)
        review == stored[Len(stored)]
        confidence_normalized == [num |-> confidence - 1, den |-> 4]
    IN  IF ~CallBinds(update_flashcard_schedule_keywords,
                      record_flashcard_review_parameters)
        THEN [raised |-> "TypeError",
              calc |-> call,
              flashcard_reviews |-> flashcard_reviews,
              progress_tracking |-> progress_tracking,
              result |-> <<>>]
        ELSE [raised |-> "none",
              calc |-> call,
              flashcard_reviews |-> stored,
              progress_tracking |->
                  IF flashcard_id \in flashcards
                  THEN Append(progress_tracking,
                              [user_id |-> user_id,
                               topic |-> TopicOf(flashcard_id),
                               activity_type |-> "flashcard",
                               performance |-> confidence_normalized,
                               confidence |-> confidence_normalized])
                  ELSE progress_tracking,
              result |-> [review_id |-> review.id,
                          flashcard_id |-> flashcard_id,
                          card_id |-> card_id,
                          reviewed_at |-> review.reviewed_at,
                          confidence |-> confidence,
                          next_review_at |-> call.result.next_review_date,
                          interval_days |-> call.result.next_interval]]

\* ---------------------------------------------------------------------
\* Queries.

\* get_due_flashcards: rows of the user ordered by reviewed_at descending,
\* the first row seen for each flashcard kept.
flashcard_id_to_review(reviews) ==
    [f \in {reviews[i].flashcard_id : i \in DOMAIN reviews} |->
        reviews[CHOOSE i \in DOMAIN reviews :
                    /\ reviews[i].flashcard_id = f
                    /\ \A j \in DOMAIN reviews :
                          reviews[j].flashcard_id = f => i <= j]]

\* the sort keys of ORDER BY reviewed_at DESC and ORDER BY next_review_at
NegReviewedAt(S) == [r \in S |-> 0 - r.reviewed_at]
NextReviewAt(S) == [r \in S |-> r.next_review_at]

\* the rows a query filtered on user_id reads
ReviewsOf(user_id) == {r \in Rows : r.user_id = user_id}

due_flashcards_at(reviews) ==
    LET latest == flashcard_id_to_review(reviews)
        now == clock
        due_flashcard_ids ==
            {f \in DOMAIN latest : latest[f].next_review_at = now}
    IN  {[id |-> f,
          last_review |-> latest[f].reviewed_at,
          due_date |-> latest[f].next_review_at,
          last_confidence |-> latest[f].confidence] :
            f \in due_flashcard_ids \cap flashcards}

\* SpacedRepetitionScheduler.get_due_flashcards for one order of the rows:
\* the entries returned, one for each due flashcard that has a row.
due_flashcards(reviews) ==
    LET latest == flashcard_id_to_review(reviews)
        now == clock
        due_flashcard_ids ==
            {f \in DOMAIN latest : latest[f].next_review_at <= now}
    IN  {[id |-> f,
          last_review |-> latest[f].reviewed_at,
          due_date |-> latest[f].next_review_at,
          last_confidence |-> latest[f].confidence] :
            f \in due_flashcard_ids \cap flashcards}

\* repository.get_flashcards_due_for_review: latest_reviews is, for each
\* flashcard the user reviewed, the greatest reviewed_at; the join matches
\* review rows on flashcard_id and reviewed_at.
latest_reviews_in(rows, user_id) ==
    {[flashcard_id |-> f,
      latest_review |->
          last_reviewed_at({r \in rows : /\ r.user_id = user_id
                                         /\ r.flashcard_id = f})] :
        f \in {r.flashcard_id : r \in {q \in rows : q.user_id = user_id}}}

latest_reviews(user_id) == latest_reviews_in(Rows, user_id)

get_flashcards_due_for_review_at(user_id) ==
    LET now == clock
        due_reviews ==
            {r \in Rows :
                /\ \E l \in latest_reviews(user_id) :
                      /\ r.flashcard_id = l.flashcard_id
                      /\ r.reviewed_at = l.latest_review
                /\ r.next_review_at = now}
        flashcard_ids == {r.flashcard_id : r \in due_reviews}
    IN  {[id |-> f] : f \in flashcard_ids \cap flashcards}

\* the query evaluated on the review rows `rows`
get_flashcards_due_for_review_in(rows, user_id) ==
    LET now == clock
        due_reviews ==
            {r \in rows :
                /\ \E l \in latest_reviews_in(rows, user_id) :
                      /\ r.flashcard_id = l.flashcard_id
                      /\ r.reviewed_at = l.latest_review
                /\ r.next_review_at <= now}
        flashcard_ids == {r.flashcard_id : r \in due_reviews}
    IN  {[id |-> f] : f \in flashcard_ids \cap flashcards}

get_flashcards_due_for_review(user_id) ==
    get_flashcards_due_for_review_in(Rows, user_id)

Bucket_timestamps(next_review_at, now, days) ==
    IF next_review_at < now THEN "overdue"
    ELSE IF next_review_at = now THEN "today"
    ELSE IF DaysOf(next_review_at - now) <= days THEN "upcoming"
    ELSE "omitted"

\* LearningManager.get_spaced_repetition_schedule, the categorisation of one
\* review by date
Bucket(next_review_at, now, days) ==
    LET today == Midnight(now)
        review_date == Midnight(next_review_at)
        days_ahead == DaysOf(review_date - today)
    IN  IF review_date < today THEN "overdue"
        ELSE IF review_date = today THEN "today"
        ELSE IF days_ahead <= days THEN "upcoming"
        ELSE "omitted"

\* strftime("%Y-%m-%d") of a midnight: the calendar day, written as its
\* day number
DateStr(review_date) == review_date \div TicksPerDay

review_item(review) ==
    [id |-> review.id,
     type |-> "flashcard",
     topic |-> TopicOf(review.flashcard_id),
     due_date |-> review.next_review_at]

ItemsOf(reviews) == [i \in DOMAIN reviews |-> review_item(reviews[i])]

\* LearningManager.get_spaced_repetition_schedule for one order of the rows
spaced_repetition_schedule(user_id, reviews, days) ==
    LET now == clock
        known == SelectSeq(reviews, LAMBDA r : r.flashcard_id \in flashcards)
        InBucket(r, b) == Bucket(r.next_review_at, now, days) = b
        overdue == SelectSeq(known, LAMBDA r : InBucket(r, "overdue"))
        today_items == SelectSeq(known, LAMBDA r : InBucket(r, "today"))
        later == SelectSeq(known, LAMBDA r : InBucket(r, "upcoming"))
        dates == {DateStr(Midnight(later[i].next_review_at)) : i \in DOMAIN later}
    IN  [user_id |-> user_id,
         today |-> ItemsOf(today_items),
         overdue |-> ItemsOf(overdue),
         upcoming |->
             [d \in dates |->
                 ItemsOf(SelectSeq(later,
                     LAMBDA r : DateStr(Midnight(r.next_review_at)) = d))]]

\* ---------------------------------------------------------------------
\* Actions.

Init ==
    /\ clock = 0
    /\ flashcards = {"f1"}
    /\ flashcard_reviews = <<>>
    /\ progress_tracking = <<>>
    /\ calc = NoCall
    /\ response = NoCall

\* A handler runs only when no response is waiting to be sent.
Idle == response = NoCall

\* the response leaves the server
Respond ==
    /\ response # NoCall
    /\ response' = NoCall
    /\ calc' = NoCall
    /\ UNCHANGED <<clock, flashcards, flashcard_reviews, progress_tracking>>

\* the wall clock advances
Tick ==
    /\ Idle
    /\ clock < MaxClock
    /\ clock' = clock + 1
    /\ UNCHANGED <<flashcards, flashcard_reviews, progress_tracking, calc, response>>

\* POST /flashcard/review (api/flashcard.py submit_flashcard_review).
\* repository.record_flashcard_review commits the insert and then refreshes
\* the row; an exception of either call is turned into HTTPException(500).
\* A failed commit stores nothing, a failed refresh comes after the commit.
submit_flashcard_review(user_id, flashcard_id, card_id, confidence, fault) ==
    /\ Idle
    /\ Len(flashcard_reviews) < MaxReviews
    /\ LET request == [op |-> "submit_flashcard_review",
                       user_id |-> user_id,
                       flashcard_id |-> flashcard_id,
                       confidence |-> confidence]
           stored == record_flashcard_review(flashcard_id, user_id, confidence)
           review == stored[Len(stored)]
           recommendation ==
               IF confidence <= 2 THEN "review again soon"
               ELSE IF confidence = 3 THEN "making progress"
               ELSE "good grasp"
       IN  /\ flashcard_reviews' =
                  IF fault = "commit" THEN flashcard_reviews ELSE stored
           /\ response' =
                  IF fault = "none"
                  THEN request @@ [status |-> 200,
                                   raised |-> "none",
                                   body |-> [success |-> TRUE,
                                             next_review |-> review.next_review_at,
                                             recommendation |-> recommendation]]
                  ELSE request @@ [status |-> 500,
                                   raised |-> "OperationalError",
                                   body |-> <<>>]
    /\ UNCHANGED <<clock, flashcards, progress_tracking, calc>>

\* POST /learning/flashcard/review (api/learning_progress.py
\* record_flashcard_review).  The HTTPException(400) of the range check is
\* raised inside the try block, whose except clause turns every exception
\* into HTTPException(500).  A storage error of the query that opens
\* update_flashcard_schedule ends the call before the scheduler is reached.
learning_record_flashcard_review(flashcard_id, card_id, user_id, confidence, fault) ==
    LET request == [op |-> "record_flashcard_review",
                    user_id |-> user_id,
                    flashcard_id |-> flashcard_id,
                    confidence |-> confidence]
        out == update_flashcard_schedule(user_id, flashcard_id,
                                         card_id, confidence)
    IN  /\ Idle
        /\ IF confidence < 1 \/ confidence > 5
           THEN /\ response' = request @@ [status |-> 500,
                                           raised |-> "HTTPException(400)",
                                           body |-> <<>>]
                /\ UNCHANGED <<clock, flashcards, flashcard_reviews,
                               progress_tracking, calc>>
           ELSE IF fault = "query"
           THEN /\ response' = request @@ [status |-> 500,
                                           raised |-> "OperationalError",
                                           body |-> <<>>]
                /\ UNCHANGED <<clock, flashcards, flashcard_reviews,
                               progress_tracking, calc>>
           ELSE /\ Len(out.flashcard_reviews) <= MaxReviews
                /\ calc' = out.calc
                /\ flashcard_reviews' = out.flashcard_reviews
                /\ progress_tracking' = out.progress_tracking
                /\ response' = request
                       @@ [status |-> IF out.raised = "none" THEN 200 ELSE 500,
                           raised |-> out.raised,
                           body |-> out.result]
                /\ UNCHANGED <<clock, flashcards>>

\* GET /learning/flashcard/due/{user_id}
get_due_flashcards(user_id) ==
    /\ Idle
    /\ \E reviews \in OrderBy(ReviewsOf(user_id), NegReviewedAt(ReviewsOf(user_id))) :
          response' = [op |-> "get_due_flashcards",
                       user_id |-> user_id,
                       status |-> 200,
                       body |-> due_flashcards(reviews)]
    /\ UNCHANGED <<clock, flashcards, flashcard_reviews, progress_tracking, calc>>

\* GET /flashcard/due/{user_id} (api/flashcard.py get_due_flashcards)
flashcard_get_due_flashcards(user_id) ==
    /\ Idle
    /\ response' = [op |-> "get_flashcards_due_for_review",
                    user_id |-> user_id,
                    status |-> 200,
                    body |-> get_flashcards_due_for_review(user_id)]
    /\ UNCHANGED <<clock, flashcards, flashcard_reviews, progress_tracking, calc>>

\* GET /learning/schedule/{user_id}?days=
get_spaced_repetition_schedule(user_id, days) ==
    /\ Idle
    /\ \E reviews \in OrderBy(ReviewsOf(user_id), NextReviewAt(ReviewsOf(user_id))) :
          response' = [op |-> "get_spaced_repetition_schedule",
                       user_id |-> user_id,
                       days |-> days,
                       status |-> 200,
                       body |-> spaced_repetition_schedule(user_id, reviews, days)]
    /\ UNCHANGED <<clock, flashcards, flashcard_reviews, progress_tracking, calc>>

Next ==
    \/ Tick
    \/ Respond
    \/ \E p \in ReviewPairs, k \in CardIds, c \in ConfidenceInputs,
             fault \in InsertFaults :
          submit_flashcard_review(p[1], p[2], k, c, fault)
    \/ \E p \in ReviewPairs, k \in CardIds, c \in ConfidenceInputs,
             fault \in ScheduleFaults :
          learning_record_flashcard_review(p[2], k, p[1], c, fault)
    \/ \E u \in Users : get_due_flashcards(u)
    \/ \E u \in Users : flashcard_get_due_flashcards(u)
    \/ \E u \in Users, days \in HorizonInputs :
          get_spaced_repetition_schedule(u, days)

Spec == Init /\ [][Next]_vars

\* C1: whenever calculate_next_review has been applied to a confidence in
\* 1..5, a previous interval >= 0 and a repetition count >= 0, the interval
\* it returns is 1 when the returned repetitions is 0, 3 when it is 1, 7 when
\* it is 2, and min(180, ceil(previous_interval * ease_factor)) when it is 3
\* or more; confidence 3 after 10 days with 3 repetitions gives 19.
C1_IntervalByTier ==
    calc.op = "calculate_next_review" =>
        LET out == calc.result
            product == CeilMul(calc.previous_interval, out.ease_factor)
        IN  /\ out.repetitions = 0 => out.next_interval = 1
            /\ out.repetitions = 1 => out.next_interval = 3
            /\ out.repetitions = 2 => out.next_interval = 7
            /\ out.repetitions >= 3 =>
                  out.next_interval = IF product > 180 THEN 180 ELSE product
            /\ (calc.confidence = 3 /\ calc.previous_interval = 10
                   /\ calc.repetitions = 3) => out.next_interval = 19

\* Scenario 4: confidence 4 after 120 days with 5 repetitions is clamped.
C1_Witness ==
    /\ calc.op = "calculate_next_review"
    /\ calc.confidence = 4
    /\ calc.previous_interval = 120
    /\ calc.repetitions = 5
    /\ calc.result.repetitions = 6
    /\ calc.result.next_interval = 180

\* C2: every interval returned by calculate_next_review for a confidence in
\* 1..5, a previous interval >= 0 and a repetition count >= 0 lies in 1..180.
C2_IntervalInRange ==
    calc.op = "calculate_next_review" =>
        /\ calc.result.next_interval >= 1
        /\ calc.result.next_interval <= 180

\* C3: calculate_next_review returns repetitions 0 (and interval 1) for
\* confidence 1 and 2 whatever the repetitions passed in, and repetitions + 1
\* for confidence 3, 4 and 5.
C3_RepetitionsOut ==
    calc.op = "calculate_next_review" =>
        /\ calc.confidence \in {1, 2} =>
              /\ calc.result.repetitions = 0
              /\ calc.result.next_interval = 1
        /\ calc.confidence \in {3, 4, 5} =>
              calc.result.repetitions = calc.repetitions + 1

\* Scenario 2: confidence 2 after a streak of 3 and 14 days.
C3_Witness ==
    /\ calc.op = "calculate_next_review"
    /\ calc.confidence = 2
    /\ calc.previous_interval = 14
    /\ calc.repetitions = 3
    /\ calc.result.repetitions = 0
    /\ calc.result.next_interval = 1

\* ---------------------------------------------------------------------
\* The history of one (user, flashcard) pair, oldest review first.
History(user_id, flashcard_id) ==
    SelectSeq(flashcard_reviews,
              LAMBDA r : r.user_id = user_id /\ r.flashcard_id = flashcard_id)

\* the number of reviews with confidence >= 3 at the end of a history,
\* counted back to the most recent review with confidence <= 2
Streak(h) ==
    Cardinality({i \in DOMAIN h : \A j \in i..Len(h) : h[j].confidence >= 3})

\* no two reviews of one pair of this user share a reviewed_at
LatestIsUnique(user_id) ==
    \A r, q \in Rows :
        (/\ r.user_id = user_id /\ q.user_id = user_id
         /\ r.flashcard_id = q.flashcard_id
         /\ r.reviewed_at = q.reviewed_at) => r = q

\* every stored confidence is in range and the user's latest reviews are
\* unambiguous
PlainHistory(user_id) ==
    /\ LatestIsUnique(user_id)
    /\ \A r \in Rows : r.confidence \in ValidConfidence

ReviewOps == {"submit_flashcard_review", "record_flashcard_review"}

\* C4: the repetitions that update_flashcard_schedule passes to the scheduler
\* is the number of consecutive reviews with confidence >= 3 since the
\* pair's most recent review with confidence <= 2 (0 without history or
\* right after a failed review), so the first success after a failure
\* returns repetitions 1 and interval 3.
C4_RepetitionsAreStreak ==
    (/\ response.op = "record_flashcard_review"
     /\ calc.op = "calculate_next_review"
     /\ PlainHistory(response.user_id)) =>
        LET h == History(response.user_id, response.flashcard_id)
        IN  /\ calc.repetitions = Streak(h)
            /\ (Len(h) > 0 /\ h[Len(h)].confidence <= 2 /\ calc.confidence >= 3) =>
                  /\ calc.result.repetitions = 1
                  /\ calc.result.next_interval = 3

\* what the scheduler computes for the review stored as row i, from the rows
\* of the same pair stored before it
ScheduledFor(i) ==
    LET row == flashcard_reviews[i]
        prior == {flashcard_reviews[j] : j \in
                     {k \in 1..(i - 1) :
                         /\ flashcard_reviews[k].user_id = row.user_id
                         /\ flashcard_reviews[k].flashcard_id = row.flashcard_id}}
        previous_interval ==
            IF prior = {} THEN 0
            ELSE Max(DaysOf(row.reviewed_at - last_reviewed_at(prior)), 1)
    IN  calculate_next_review(row.confidence, previous_interval,
                              repetitions_of(prior), row.reviewed_at)

\* C5: every stored review carries the next_review_at the scheduler computes
\* for it (review time + next_interval days); a pair's first review with
\* confidence 5 is stored with next_review_at = reviewed_at + 3 days; and a
\* review answered with success has added a row for its pair.
C5_StoredNextReviewIsScheduled ==
    /\ \A i \in DOMAIN flashcard_reviews :
          LET row == flashcard_reviews[i]
          IN  row.confidence \in ValidConfidence =>
                 /\ row.next_review_at = ScheduledFor(i).next_review_date
                 /\ (Len(History(row.user_id, row.flashcard_id)) = 1
                       /\ row.confidence = 5) =>
                       row.next_review_at = row.reviewed_at + Days(3)
    /\ (response.op \in ReviewOps /\ response.status = 200) =>
          /\ Len(flashcard_reviews) > 0
          /\ flashcard_reviews[Len(flashcard_reviews)].user_id = response.user_id
          /\ flashcard_reviews[Len(flashcard_reviews)].flashcard_id
                = response.flashcard_id

LatestDue(user_id) ==
    {f \in FlashcardIds :
        LET h == previous_reviews(user_id, f)
        IN  /\ h # {}
            /\ \A r \in h :
                  r.reviewed_at = last_reviewed_at(h) => r.next_review_at <= clock}

\* C7: each due query returns exactly one entry for every existing flashcard
\* whose latest review by that user has next_review_at <= now, and no entry
\* for any other flashcard; a flashcard the user never reviewed is not
\* returned.
C7_DueIsLatestDue ==
    (/\ response.op \in {"get_due_flashcards", "get_flashcards_due_for_review"}
     /\ PlainHistory(response.user_id)) =>
        /\ {e.id : e \in response.body} = LatestDue(response.user_id) \cap flashcards
        /\ Cardinality(response.body) = Cardinality({e.id : e \in response.body})

\* the entries of a schedule, over all its buckets
RECURSIVE UpcomingEntries(_, _)
UpcomingEntries(upcoming, keys) ==
    IF keys = {} THEN <<>>
    ELSE LET d == CHOOSE k \in keys : TRUE
         IN  upcoming[d] \o UpcomingEntries(upcoming, keys \ {d})

ScheduleEntries(body) ==
    body.overdue \o body.today \o UpcomingEntries(body.upcoming, DOMAIN body.upcoming)

Ids(items) == {items[i].id : i \in DOMAIN items}

RowOf(id) == flashcard_reviews[id]

Superseded(r) ==
    \E q \in Rows :
        /\ q.user_id = r.user_id
        /\ q.flashcard_id = r.flashcard_id
        /\ q.reviewed_at > r.reviewed_at

\* C8: the schedule has at most one entry per flashcard, and no entry for a
\* review that a later review of the same (user, flashcard) pair has
\* superseded.
C8_OnlyLatestClassified ==
    (/\ response.op = "get_spaced_repetition_schedule"
     /\ PlainHistory(response.user_id)) =>
        LET entries == ScheduleEntries(response.body)
        IN  /\ \A i \in DOMAIN entries : ~Superseded(RowOf(entries[i].id))
            /\ \A i, j \in DOMAIN entries :
                  RowOf(entries[i].id).flashcard_id
                     = RowOf(entries[j].id).flashcard_id => i = j

\* the calendar day of a timestamp
DateOf(t) == t \div TicksPerDay

\* C9: in a schedule, every review of the user whose flashcard exists is in
\* overdue iff its next_review_at date is before today's date, in today iff
\* the dates are equal, in upcoming under its own date iff the date is after
\* today and at most days later, and in no bucket iff the date is more than
\* days after today; the time of day plays no part.
C9_BucketsByDate ==
    response.op = "get_spaced_repetition_schedule" =>
        LET body == response.body
            days == response.days
            t == DateOf(clock)
        IN  \A r \in Rows :
               (r.user_id = response.user_id /\ r.flashcard_id \in flashcards) =>
                  LET d == DateOf(r.next_review_at)
                  IN  /\ r.id \in Ids(body.overdue) <=> d < t
                      /\ r.id \in Ids(body.today) <=> d = t
                      /\ (t < d /\ d <= t + days) => d \in DOMAIN body.upcoming
                      /\ \A key \in DOMAIN body.upcoming :
                            r.id \in Ids(body.upcoming[key]) <=>
                               (key = d /\ t < d /\ d <= t + days)
                      /\ r.id \notin Ids(ScheduleEntries(body)) <=> d > t + days

\* one schedule with a review in today that is not yet due (its time of day
\* is later than now) and a review left out because it lies beyond the horizon
C9_Witness ==
    /\ response.op = "get_spaced_repetition_schedule"
    /\ \E i \in DOMAIN response.body.today :
          response.body.today[i].due_date > clock
    /\ \E r \in Rows :
          /\ r.user_id = response.user_id
          /\ r.flashcard_id \in flashcards
          /\ r.id \notin Ids(ScheduleEntries(response.body))

\* C10: a review submitted with a confidence outside 1..5 is answered with
\* an error and stores nothing: no row with an out-of-range confidence
\* exists, at either entry point.
C10_InvalidConfidenceRejected ==
    /\ (response.op \in ReviewOps /\ response.confidence \notin ValidConfidence) =>
          response.status # 200
    /\ \A r \in Rows : r.confidence \in ValidConfidence
    /\ progress_tracking = <<>> \/ \A i \in DOMAIN progress_tracking :
          progress_tracking[i].performance.num \in 0..4

\* C11: a review submitted for a flashcard that has no row in flashcards is
\* answered with an error and no review row is stored for it: every review
\* stored with a confidence in 1..5 names an existing flashcard, at either
\* entry point.
C11_UnknownItemRejected ==
    /\ (/\ response.op \in ReviewOps
        /\ response.confidence \in ValidConfidence
        /\ response.flashcard_id \notin flashcards) => response.status # 200
    /\ \A r \in Rows :
          r.confidence \in ValidConfidence => r.flashcard_id \in flashcards

QueryOps == {"get_due_flashcards", "get_flashcards_due_for_review",
             "get_spaced_repetition_schedule"}

\* C13: the review table only grows by appending: every step leaves the
\* stored rows as they are or adds one row after them; a review answered
\* with success has added exactly one row; a due query or a schedule query
\* leaves the table unchanged; and the table changes in no step other than
\* the handling of a review.
C13_AppendOnly ==
    [][/\ \/ flashcard_reviews' = flashcard_reviews
          \/ /\ Len(flashcard_reviews') = Len(flashcard_reviews) + 1
             /\ SubSeq(flashcard_reviews', 1, Len(flashcard_reviews))
                   = flashcard_reviews
       /\ (response = NoCall /\ response'.op \in ReviewOps
              /\ response'.status = 200) =>
             Len(flashcard_reviews') = Len(flashcard_reviews) + 1
       /\ response'.op \in QueryOps => flashcard_reviews' = flashcard_reviews
       /\ flashcard_reviews' # flashcard_reviews =>
             (response = NoCall /\ response'.op \in ReviewOps)]_vars

\* a query answered while the table holds two reviews of one pair, the
\* later one stored after the earlier one
C13_Witness ==
    /\ response.op \in QueryOps
    /\ Len(flashcard_reviews) = 2
    /\ flashcard_reviews[1].user_id = flashcard_reviews[2].user_id
    /\ flashcard_reviews[1].flashcard_id = flashcard_reviews[2].flashcard_id
    /\ flashcard_reviews[1].reviewed_at < flashcard_reviews[2].reviewed_at

\* everything SpacedRepetitionScheduler.get_due_flashcards can return for a
\* user in the current state, one result for each order the query may give
DueResults(user_id) ==
    {due_flashcards(reviews) :
        reviews \in OrderBy(ReviewsOf(user_id), NegReviewedAt(ReviewsOf(user_id)))}

\* C14 as stated: over every step that records no review, each due query
\* returns for each user the same result after the step as before it.
C14_DueReadIdempotent ==
    [][flashcard_reviews' = flashcard_reviews =>
          \A u \in Users :
             /\ get_flashcards_due_for_review(u)' = get_flashcards_due_for_review(u)
             /\ LatestIsUnique(u) => DueResults(u)' = DueResults(u)]_vars

\* C14 amended: a due query that is repeated at the same clock reading with
\* no review recorded in between returns the same result (with no two
\* reviews of one pair stored at the same instant, the result just answered
\* is the only one the query gives in the state it leaves behind); and
\* when the clock advances with no review recorded, each due query returns
\* every entry it returned before.
C14_DueReadStable ==
    [][\A u \in Users :
          /\ (/\ response = NoCall
              /\ response'.op = "get_flashcards_due_for_review"
              /\ response'.user_id = u) =>
                response'.body = get_flashcards_due_for_review(u)'
          /\ (/\ response = NoCall
              /\ response'.op = "get_due_flashcards"
              /\ response'.user_id = u) =>
                /\ response'.body \in DueResults(u)'
                /\ LatestIsUnique(u) => DueResults(u)' = {response'.body}
          /\ (clock' # clock /\ flashcard_reviews' = flashcard_reviews) =>
                /\ get_flashcards_due_for_review(u)
                      \subseteq get_flashcards_due_for_review(u)'
                /\ LatestIsUnique(u) =>
                      \A a \in DueResults(u), b \in DueResults(u)' :
                         a \subseteq b]_vars

\* a due query answered with a flashcard whose review has come due at this
\* very clock reading, after the clock advanced
C14_Witness ==
    /\ response.op \in {"get_due_flashcards", "get_flashcards_due_for_review"}
    /\ response.body # {}
    /\ clock > 0
    /\ \E r \in Rows :
          /\ r.user_id = response.user_id
          /\ r.flashcard_id \in {e.id : e \in response.body}
          /\ r.next_review_at = clock

\* the entries of one bucket come in ascending due_date, entries with the
\* same due_date in ascending id
BucketSorted(items) ==
    \A i, j \in DOMAIN items :
        i < j =>
           \/ items[i].due_date < items[j].due_date
           \/ /\ items[i].due_date = items[j].due_date
              /\ items[i].id < items[j].id

EaseLeq(a, b) ==
    \/ a.tenths < b.tenths
    \/ a.tenths = b.tenths /\ a.err <= b.err

\* C16: the ease_factor returned by calculate_next_review is the double of
\* 1.3 + (confidence - 1) * 0.3, that is 1.3, 1.6, 1.9, 2.2, 2.5 for
\* confidence 1..5 (each within half a unit in the last place of the
\* decimal value); it is not below 1.3 and not above 2.5, it does not
\* decrease when confidence increases, and it is the same for every
\* previous_interval and repetitions.
C16_EaseFactor ==
    calc.op = "calculate_next_review" =>
        LET c == calc.confidence
            e == calc.result.ease_factor
        IN  /\ e.tenths = CASE c = 1 -> 13 [] c = 2 -> 16 [] c = 3 -> 19
                             [] c = 4 -> 22 [] c = 5 -> 25
            /\ e.tenths = 13 + (c - 1) * 3
            /\ 0 - 5 <= e.err /\ e.err <= 5
            /\ EaseLeq([tenths |-> 13, err |-> 0], e)
            /\ EaseLeq(e, [tenths |-> 25, err |-> 0])
            /\ \A c2 \in ValidConfidence, p \in {0, MaxPrevInterval},
                  r \in {0, MaxRepetitions} :
                  LET e2 == calculate_next_review(c2, p, r, calc.now).ease_factor
                  IN  /\ c2 = c => e2 = e
                      /\ c2 >= c => EaseLeq(e, e2)
                      /\ c2 <= c => EaseLeq(e2, e)

\* Scenario 1: a first review with confidence 5 has ease factor 2.5
C16_Witness ==
    /\ calc.op = "calculate_next_review"
    /\ calc.confidence = 5
    /\ calc.previous_interval = 0
    /\ calc.repetitions = 0
    /\ calc.result.ease_factor.tenths = 25
    /\ calc.result.ease_factor.err = 0

\* C17: a review submitted with a confidence outside 1..5 or for a flashcard
\* that does not exist, and not hit by a storage error, is answered with a
\* status in 400..499 at either entry point.
C17_ClientErrorsAre4xx ==
    (/\ response.op \in ReviewOps
     /\ \/ response.confidence \notin ValidConfidence
        \/ response.flashcard_id \notin flashcards
     /\ response.raised # "OperationalError") =>
        (400 <= response.status /\ response.status <= 499)

\* C18: a review call for an existing flashcard with a confidence in 1..5
\* that fails with a storage error, whichever database call failed, is answered with a 5xx status and leaves the review table
\* and the progress records exactly as they were before the call.
C18_StorageFailureLeavesNothing ==
    [][(/\ response = NoCall
        /\ response'.op \in ReviewOps
        /\ response'.confidence \in ValidConfidence
        /\ response'.flashcard_id \in flashcards
        /\ response'.raised = "OperationalError") =>
           /\ response'.status >= 500
           /\ flashcard_reviews' = flashcard_reviews
           /\ progress_tracking' = progress_tracking]_vars

\* C19: when a review of an existing flashcard with confidence c in 1..5 has
\* been answered with success, the latest progress update is the one for
\* that user and the flashcard's topic, with activity_type "flashcard" and
\* performance and confidence both (c - 1) / 4; and there are never more
\* progress updates than stored reviews.
C19_ProgressUpdated ==
    /\ Len(progress_tracking) <= Len(flashcard_reviews)
    /\ (/\ response.op \in ReviewOps
        /\ response.status = 200
        /\ response.confidence \in ValidConfidence
        /\ response.flashcard_id \in flashcards) =>
           /\ Len(progress_tracking) >= 1
           /\ progress_tracking[Len(progress_tracking)] =
                 [user_id |-> response.user_id,
                  topic |-> TopicOf(response.flashcard_id),
                  activity_type |-> "flashcard",
                  performance |-> [num |-> response.confidence - 1, den |-> 4],
                  confidence |-> [num |-> response.confidence - 1, den |-> 4]]

MaxScheduleClock == 8

ScheduleConfidences == ConfidenceInputs \cup ValidConfidence

\* the row repository.record_flashcard_review stored for u1 and f1 at time t
StoredReview(id, confidence, t) ==
    [id |-> id,
     flashcard_id |-> "f1",
     user_id |-> "u1",
     confidence |-> confidence,
     next_review_at |-> t + Days(days_to_next_review(confidence)),
     reviewed_at |-> t]

StoredHistories ==
    UNION {{[i \in 1..n |-> StoredReview(i, cs[i], ts[i])] :
               cs \in [1..n -> ConfidenceInputs],
               ts \in {x \in [1..n -> 0..MaxScheduleClock] :
                          \A i \in 1..(n - 1) : x[i] <= x[i + 1]}} :
           n \in 0..MaxReviews}

InitSchedule ==
    /\ clock \in 0..MaxScheduleClock
    /\ flashcards = {"f1"}
    /\ flashcard_reviews \in StoredHistories
    /\ \A i \in DOMAIN flashcard_reviews :
          flashcard_reviews[i].reviewed_at <= clock
    /\ progress_tracking = <<>>
    /\ calc = NoCall
    /\ response = NoCall

NextSchedule ==
    \/ Respond
    \/ \E p \in ReviewPairs, k \in CardIds, c \in ScheduleConfidences,
             fault \in ScheduleFaults :
          learning_record_flashcard_review(p[2], k, p[1], c, fault)

SpecSchedule == InitSchedule /\ [][NextSchedule]_vars

\* C21: when update_flashcard_schedule calls the scheduler, the previous
\* interval it passes is 0 if the pair has no stored review and otherwise
\* the whole days between the reviewed_at of the pair's most recent review
\* and the clock reading of the call, raised to 1 if less; it is a function
\* of the elapsed time alone, whatever next_review_at the prior row stores.
C21_PreviousIntervalFromElapsed ==
    (response.op = "record_flashcard_review" /\ calc.op = "calculate_next_review") =>
        LET h == History(response.user_id, response.flashcard_id)
            elapsed == clock - h[Len(h)].reviewed_at
        IN  /\ calc.now = clock
            /\ calc.previous_interval =
                  IF h = <<>> THEN 0
                  ELSE IF elapsed \div TicksPerDay >= 1
                       THEN elapsed \div TicksPerDay
                       ELSE 1

\* two whole days after a review with confidence 5, whose row stores a
\* next review 30 days ahead
C21_Witness ==
    /\ response.op = "record_flashcard_review"
    /\ calc.op = "calculate_next_review"
    /\ LET h == History(response.user_id, response.flashcard_id)
       IN  /\ h # <<>>
           /\ h[Len(h)].confidence = 5
           /\ h[Len(h)].next_review_at = h[Len(h)].reviewed_at + Days(30)
           /\ clock - h[Len(h)].reviewed_at = Days(2) + 1
    /\ calc.previous_interval = 2

\* C22: when a review has been recorded with success, the pair's latest
\* record has its next_review_at after the clock reading of the call, and
\* neither due query, asked at that reading, returns the flashcard for the
\* user; this holds whether the pair had no record, a record not yet due or
\* a record already due before the call.
C22_ScheduledAfterReview ==
    (response.op \in ReviewOps /\ response.status = 200) =>
        LET h == previous_reviews(response.user_id, response.flashcard_id)
        IN  /\ h # {}
            /\ last_reviewed_at(h) = clock
            /\ \A r \in h :
                  r.reviewed_at = last_reviewed_at(h) => r.next_review_at > clock
            /\ \A due \in DueResults(response.user_id) :
                  \A e \in due : e.id # response.flashcard_id
            /\ \A e \in get_flashcards_due_for_review(response.user_id) :
                  e.id # response.flashcard_id

\* a review recorded with success for a pair of an existing flashcard whose
\* earlier review had come due
C22_Witness ==
    /\ response.op \in ReviewOps
    /\ response.status = 200
    /\ response.flashcard_id \in flashcards
    /\ LET h == History(response.user_id, response.flashcard_id)
       IN  /\ Len(h) = 2
           /\ h[1].next_review_at <= clock
           /\ h[2].reviewed_at = clock

\* the flashcards a user's due query returns whichever order the database
\* gives the rows in
DueFor(user_id) ==
    {f \in flashcards :
        \A due \in DueResults(user_id) : \E e \in due : e.id = f}

\* C23: over every step that records no review of a pair, a flashcard the
\* user's due query returned before the step is still returned after it,
\* be the step the passing of time, a query or a review of another pair;
\* and the history of a pair changes only in a step that handles a review
\* of that same pair, so a pair with no record gets one by no other step.
C23_DueUntilReviewed ==
    [][\A p \in ReviewPairs :
          /\ History(p[1], p[2])' # History(p[1], p[2]) =>
                /\ response'.op \in ReviewOps
                /\ response'.user_id = p[1]
                /\ response'.flashcard_id = p[2]
          /\ (/\ clock' # clock \/ flashcard_reviews' # flashcard_reviews
              /\ History(p[1], p[2])' = History(p[1], p[2])
              /\ LatestIsUnique(p[1])
              /\ p[2] \in DueFor(p[1])) =>
                p[2] \in DueFor(p[1])']_vars

\* a review of f1 by u2 has just been stored while f1 is due for u1
C23_Witness ==
    /\ response.op = "submit_flashcard_review"
    /\ response.status = 200
    /\ response.user_id = "u2"
    /\ LatestIsUnique("u1")
    /\ "f1" \in DueFor("u1")
    /\ History("u2", "f1")[1].reviewed_at = clock

\* ---------------------------------------------------------------------
\* Reviews followed by the passing of time.  Reviews of existing flashcards
\* with a confidence in range are stored while the clock is within
\* 0..MaxClock; from then on the clock advances a day at a time until every
\* stored next_review_at has been passed.
MaxTableDays == 30

LiveClockEnd == MaxClock + Days(MaxTableDays)

\* the wall clock advances by a day
TickDay ==
    /\ Idle
    /\ clock >= MaxClock
    /\ clock < LiveClockEnd
    /\ clock' = clock + Days(1)
    /\ UNCHANGED <<flashcards, flashcard_reviews, progress_tracking, calc, response>>

NextLive ==
    \/ Tick
    \/ TickDay
    \/ Respond
    \/ \E p \in ReviewPairs, k \in CardIds,
             c \in ConfidenceInputs \cap ValidConfidence :
          /\ clock <= MaxClock
          /\ p[2] \in flashcards
          /\ submit_flashcard_review(p[1], p[2], k, c, "none")

\* Every response is sent, and the clock keeps advancing: time passes
\* whatever requests arrive, so the clock steps are taken however often
\* a request is being answered.
SpecLive ==
    /\ Init
    /\ [][NextLive]_vars
    /\ SF_vars(Tick)
    /\ SF_vars(TickDay)
    /\ WF_vars(Respond)

\* C24: from any state in which a pair of an existing flashcard has a
\* stored review, either a further review of the pair is stored or the
\* flashcard comes to be returned by the user's due query, at a clock
\* reading no more than MaxIntervalDays days after the pair's latest
\* review; and no stored row schedules its next review more than
\* MaxIntervalDays days after it was made.
C24_ScheduledBecomesDue ==
    /\ \A p \in ReviewPairs :
          (p[2] \in flashcards /\ History(p[1], p[2]) # <<>>)
             ~> \/ /\ response.op = "submit_flashcard_review"
                   /\ response.status = 200
                   /\ response.user_id = p[1]
                   /\ response.flashcard_id = p[2]
                \/ /\ p[2] \in DueFor(p[1])
                   /\ clock <= last_reviewed_at(previous_reviews(p[1], p[2]))
                                  + Days(MaxIntervalDays)
    /\ [](\A r \in Rows :
             r.next_review_at <= r.reviewed_at + Days(MaxIntervalDays))

\* f1 has become due for u1 thirty days after a review with confidence 5
\* that was not yet due the day before
C24_Witness ==
    /\ Idle
    /\ Len(History("u1", "f1")) = 1
    /\ History("u1", "f1")[1].confidence = 5
    /\ "f1" \in DueFor("u1")
    /\ clock - Days(1) < History("u1", "f1")[1].next_review_at

\* the answers the scheduler's due query gives about one flashcard when the
\* table holds the rows `rows` of the user
DueAmong(rows, flashcard_id) ==
    {{e \in due_flashcards(reviews) : e.id = flashcard_id} :
        reviews \in OrderBy(rows, NegReviewedAt(rows))}

\* C25: what the program answers about a pair is a function of that pair's
\* own records, so a review of another pair changes nothing of it: each due
\* query reports the pair's flashcard exactly as it would if the table held
\* the rows of that pair alone, and the scheduler call made for a review of
\* the pair gets the interval and repetitions of the pair's own history
\* (stated for tables whose stored confidences are all in 1..5).
C25_PairsIndependent ==
    \A p \in {q \in ReviewPairs : \A r \in Rows : r.confidence \in ValidConfidence} :
        LET own == previous_reviews(p[1], p[2])
            h == History(p[1], p[2])
        IN  /\ DueAmong(ReviewsOf(p[1]), p[2]) = DueAmong(own, p[2])
            /\ {e \in get_flashcards_due_for_review(p[1]) : e.id = p[2]}
                  = {e \in get_flashcards_due_for_review_in(own, p[1]) :
                        e.id = p[2]}
            /\ (/\ response.op = "record_flashcard_review"
                /\ calc.op = "calculate_next_review"
                /\ response.user_id = p[1]
                /\ response.flashcard_id = p[2]) =>
                  /\ calc.previous_interval =
                        IF h = <<>> THEN 0
                        ELSE Max(DaysOf(clock - h[Len(h)].reviewed_at), 1)
                  /\ calc.repetitions =
                        Cardinality({i \in DOMAIN h : h[i].confidence >= 3})

\* C26: whenever update_flashcard_schedule calls the scheduler, for any
\* stored history and any confidence in 1..5, the interval computed is at
\* least 1 and at most MaxIntervalDays: the previous interval passed is 0
\* only for a pair with no stored review, for which the repetitions passed
\* are 0 too, so the branch that multiplies the previous interval by the
\* ease factor always gets a previous interval of at least 1.
C26_StoreIntervalInRange ==
    (response.op = "record_flashcard_review" /\ calc.op = "calculate_next_review") =>
        /\ calc.confidence \in ValidConfidence
        /\ calc.result.next_interval >= 1
        /\ calc.result.next_interval <= MaxIntervalDays
        /\ calc.previous_interval = 0 =>
              /\ calc.repetitions = 0
              /\ History(response.user_id, response.flashcard_id) = <<>>
        /\ calc.result.repetitions >= 3 => calc.previous_interval >= 1

\* the multiplying branch on the smallest previous interval: a third good
\* review on the day of the second, confidence 3, gives ceil(1 * 1.9) = 2
C26_Witness ==
    /\ response.op = "record_flashcard_review"
    /\ calc.op = "calculate_next_review"
    /\ calc.confidence = 3
    /\ calc.repetitions = 2
    /\ clock = History(response.user_id, response.flashcard_id)[2].reviewed_at
    /\ calc.result.repetitions = 3
    /\ calc.previous_interval = 1
    /\ calc.result.next_interval = 2

\* the pair's stored reviews that precede the review just answered
PriorHistory ==
    LET h == History(response.user_id, response.flashcard_id)
    IN  IF response.status = 200 THEN SubSeq(h, 1, Len(h) - 1) ELSE h

\* every prior review of the pair had confidence >= 3 and was made exactly
\* the computed interval after the one before it, and so is the review just
\* answered
OnTimeStreak ==
    LET h == PriorHistory
    IN  /\ \A i \in DOMAIN h :
              /\ h[i].confidence >= 3
              /\ i > 1 => h[i].reviewed_at = h[i - 1].reviewed_at
                              + Days(ScheduledFor(h[i - 1].id).next_interval)
        /\ h # <<>> => clock = h[Len(h)].reviewed_at
                          + Days(ScheduledFor(h[Len(h)].id).next_interval)

\* C27: a review with confidence >= 3 that continues an on-time streak of
\* such reviews (or opens one, on a pair with no record) is answered by
\* update_flashcard_schedule with an interval_days that is 3 for the first
\* review, 7 for the second and never less than the interval_days of the
\* review before.
C27_OnTimeStreakNonDecreasing ==
    (/\ response.op = "record_flashcard_review"
     /\ response.confidence \in 3..5
     /\ response.raised # "OperationalError"
     /\ OnTimeStreak) =>
        LET h == PriorHistory
        IN  /\ response.status = 200
            /\ Len(h) = 0 => response.body.interval_days = 3
            /\ Len(h) = 1 => response.body.interval_days = 7
            /\ Len(h) >= 1 => response.body.interval_days
                                 >= ScheduledFor(h[Len(h)].id).next_interval

\* C28: each due query answers a user with what it would answer if the
\* table held that user's reviews alone: rows of other users, a review of
\* the same flashcard stored at the same instant included, change nothing
\* (stated for tables whose stored confidences are all in 1..5).
C28_DueDependsOnOwnRecords ==
    (\A r \in Rows : r.confidence \in ValidConfidence) =>
        /\ response.op = "get_flashcards_due_for_review" =>
              response.body =
                  get_flashcards_due_for_review_in(ReviewsOf(response.user_id),
                                                   response.user_id)
        /\ response.op = "get_due_flashcards" =>
              \E reviews \in OrderBy(ReviewsOf(response.user_id),
                                     NegReviewedAt(ReviewsOf(response.user_id))) :
                 response.body = due_flashcards(reviews)

\* C29: in a schedule, every flashcard that get_due_flashcards returns for
\* the user at the same clock reading has an entry in overdue or in today
\* and none under upcoming (stated for users with confidences in range and
\* an unambiguous latest review of each pair).
C29_DueIsInOverdueOrToday ==
    (/\ response.op = "get_spaced_repetition_schedule"
     /\ PlainHistory(response.user_id)) =>
        LET body == response.body
            now_or_before == body.overdue \o body.today
            later == UpcomingEntries(body.upcoming, DOMAIN body.upcoming)
        IN  \A due \in DueResults(response.user_id) :
               \A e \in due :
                  /\ \E i \in DOMAIN now_or_before :
                        RowOf(now_or_before[i].id).flashcard_id = e.id
                  /\ \A i \in DOMAIN later :
                        RowOf(later[i].id).flashcard_id # e.id

\* C30: the scheduler call update_flashcard_schedule makes and the table it
\* leaves behind are the same for every card_id: whichever card of the
\* flashcard set the request names, the call gets the previous interval and
\* repetitions of the one history of (user_id, flashcard_id) and computes
\* the same interval and next review date.
C30_CardIdIgnored ==
    (response.op = "record_flashcard_review" /\ calc.op = "calculate_next_review") =>
        \A k \in CardIds :
            LET out == update_flashcard_schedule(response.user_id,
                           response.flashcard_id, k, response.confidence)
            IN  /\ out.calc = calc
                /\ out.calc.result.next_interval = calc.result.next_interval
                /\ out.calc.result.next_review_date = calc.result.next_review_date
                /\ out.flashcard_reviews = flashcard_reviews
                /\ out.raised = response.raised

\* a call on a pair with two stored good reviews, three days after the last:
\* interval ceil(3 * 2.5) = 8 for either card
C30_Witness ==
    /\ response.op = "record_flashcard_review"
    /\ calc.op = "calculate_next_review"
    /\ Cardinality(CardIds) >= 2
    /\ Len(History(response.user_id, response.flashcard_id)) = 2
    /\ calc.confidence = 5
    /\ calc.repetitions = 2
    /\ calc.previous_interval = 3
    /\ calc.result.next_interval = 8
    /\ \A k \in CardIds :
          update_flashcard_schedule(response.user_id, response.flashcard_id,
                                    k, 5).calc.result.next_interval = 8

====
